---- MODULE Spec2Model ----
(***************************************************************************)
(* Schedule-matrix generation of the UCSG schedule builder.                *)
(*                                                                         *)
(* Two ScheduleManager variants live in the repository:                    *)
(*   "v9"  src/schedule.js     (9 time slots, upfront capacity check)      *)
(*   "v5"  src/js/schedule.js  (5 time slots, per-subject check only)      *)
(* The variable `variant` selects which of the two files a behaviour runs. *)
(*                                                                         *)
(* JavaScript handlers run to completion: while pc # "idle" a handler (the *)
(* delayed callback of generateSchedule and the createScheduleMatrix call  *)
(* inside it) is executing and no other handler can start.                 *)
(*                                                                         *)
(* shuffleArray leaves the candidate array in a uniformly random order and *)
(* the code afterwards only removes elements (shift / pop / splice).  The  *)
(* order is therefore resolved on demand: availableSlots is the set of     *)
(* positions still in the array and taking the front (or the back) takes   *)
(* any of them.  Behaviours in which `ordered` holds follow the array      *)
(* element by element instead: shuffleArray draws its swaps, shift() takes *)
(* the first element and pop() the last.                                   *)
(*                                                                         *)
(* The AuthManager that assigns students to courses is modelled next to    *)
(* the schedule manager: src/unnamed/part_000 (enhanced) and               *)
(* src/js/auth.js.                                                         *)
(***************************************************************************)
EXTENDS Integers, Sequences, FiniteSets, TLC

\* ------------------------------------------------------------------------
\* Program constants
NumTimeSlots9 == 9
NumTimeSlots5 == 5
NumWeekDays == 5
MinCredits9 == 1
MaxCredits9 == 5
MinCredits5 == 2
MaxCredits5 == 4

\* Bounds of the explored inputs
MaxSubjects == 2
MaxSubjectsLate == 3
MaxSubjectsWide == 3
MaxSubjectsFirst == 1
MaxSubjectsUI == 1
MaxPending == 1
MaxCourses == 1
MaxSubjectsSession == 1
MaxCreditsSession == 2
MaxSubjectsOrder == 2
MaxSubjectsBuild == 1
MaxSubjectsLenient == 5
MaxStudents == 31

\* Start times explored, given as the number of candidate rows they leave
\* below them (0 rows: the last time slot is selected)
RowsAlloc == {0, 1, 2}
RowsLate == {0, 1}
RowsUI == {0, 1}
RowsOrder == {0, 1}

\* Credits explored with the whole grid as candidates: 1 and 3 need one
\* position, 5 needs two
CreditsFirst == {1, 3, 5}

\* Credits of the one subject entered in the sessions that generate, save and
\* delete: 2 needs one position in both variants, 4 needs two in the 9-slot one
CreditsSave == {2, 4}

VARIABLES
    variant,              \* "v9" | "v5": which source file runs
    subjects,             \* this.subjects
    currentScheduleData,  \* this.currentScheduleData: <<>> (null) or <<grid>>
    schedulePreview,      \* content of #schedulePreview: <<>> or <<grid>>
    saveBtnHidden,        \* #saveScheduleBtn has class "hidden"
    loading,              \* generate button is in its loading state
    pending,              \* startIndex captured by each pending setTimeout callback
    pc,                   \* position of the running handler
    startIndex,           \* argument of the running createScheduleMatrix call
    schedule,             \* local `schedule` of createScheduleMatrix, [time][day]
    availableSlots,       \* local availableSlots / availablePositions
    shuffled,             \* shuffleArray has run in this call
    idx,                  \* forEach position (1-based)
    i,                    \* loop counter of the inner for loop (v9)
    err,                  \* the Error thrown by createScheduleMatrix, if any
    writes,               \* history: per cell, the subject ids assigned to it, in order
    prior,                \* history: what the user saw when the callback started
    savedSchedules,       \* this.savedSchedules: per course <<>> (absent) or <<record>>
    quiet,                \* history: resetAdminForm has run and no generation was requested since
    ordered,              \* the order of the candidate array is followed element by element
    order,                \* the candidate array in its order (<<>> unless ordered)
    taken,                \* history: the positions shift()/pop() returned, when ordered
    random,               \* history: the values j drawn by shuffleArray, by loop index i
    firstRun,             \* history: <<>> or <<outcome of the first of two calls>>
    stored,               \* localStorage entry 'savedSchedules': <<>> (absent) or <<value>>
    studentsAssigned,     \* AuthManager.studentsAssigned: course of each observed email, 0 = no entry
    otherStudents,        \* entries of studentsAssigned of all other emails, counted per course
    result                \* value returned by the last AuthManager call, <<>> once consumed

allocVars == <<startIndex, schedule, availableSlots, shuffled, idx, i, err, writes, order, taken>>
authVars == <<studentsAssigned, otherStudents, result>>
fixedVars == <<variant, authVars, ordered, firstRun>>
domVars == <<schedulePreview, saveBtnHidden, loading>>
vars == <<variant, subjects, currentScheduleData, schedulePreview, saveBtnHidden,
          loading, pending, pc, startIndex, schedule, availableSlots, shuffled,
          idx, i, err, writes, prior, savedSchedules, quiet, ordered, order, taken, random,
          firstRun, stored, studentsAssigned, otherStudents, result>>

\* ------------------------------------------------------------------------
\* Data
Variants == {"v9", "v5"}

TimeSlotCount(v) == IF v = "v9" THEN NumTimeSlots9 ELSE NumTimeSlots5

Times(v) == 0 .. (TimeSlotCount(v) - 1)

Days == 0 .. (NumWeekDays - 1)

\* a grid cell holds null or a reference to a subject
Null == [id |-> 0, credits |-> 0]

Subject(k, c) == [id |-> k, credits |-> c]

CreditRange(v) == IF v = "v9" THEN MinCredits9 .. MaxCredits9 ELSE MinCredits5 .. MaxCredits5

\* the lists proceedToSchedule can produce: ids in intake order, credits as validated
SubjectLists(v, maxLen) ==
    UNION { { [k \in 1 .. n |-> Subject(k, cs[k])] : cs \in [1 .. n -> CreditRange(v)] }
            : n \in 1 .. maxLen }

EmptyGrid(v) == [t \in Times(v) |-> [d \in Days |-> Null]]

NoWrites(v) == [t \in Times(v) |-> [d \in Days |-> <<>>]]

Courses == 1 .. MaxCourses

NoSaved == [course \in Courses |-> <<>>]

\* AuthManager: `this.availableCourses` has 4 courses in src/js/auth.js and 6
\* in the enhanced class, which allows up to CourseLimit students per course
NumCoursesPlain == 4
NumCoursesEnhanced == 6
CourseLimit == 5

\* the enhanced AuthManager accompanies the 9-slot manager, the one of src/js
\* accompanies src/js/schedule.js
Enhanced == variant = "v9"

\* courses 'A', 'B', ... by their position in availableCourses
AvailableCourses == 1 .. (IF Enhanced THEN NumCoursesEnhanced ELSE NumCoursesPlain)

NoCourse == 0

\* the emails whose entries are followed one by one
Emails == {"a@cu.ucsg.edu.ec"}

\* `this.studentsAssigned = []`
NoStudents == [email \in Emails |-> NoCourse]

NoOthers == [course \in AvailableCourses |-> 0]

NoError == [kind |-> "none", required |-> 0, available |-> 0, subject |-> 0]

Max(a, b) == IF a >= b THEN a ELSE b

\* variant of SlotsNeeded without the lower bound of one slot
SlotsNeeded_NoFloorOfOne(subject) == subject.credits \div 2

SlotsNeeded_PerCredit(subject) == subject.credits

SlotsNeeded(subject) == Max(1, subject.credits \div 2)

Candidates_FromFirstSlot(v, start) ==
    { [day |-> d, time |-> t] : d \in Days, t \in 0 .. (TimeSlotCount(v) - 2) }

\* the candidate positions pushed by the two nested loops
Candidates(v, start) ==
    { [day |-> d, time |-> t] : d \in Days, t \in start .. (TimeSlotCount(v) - 2) }

\* start indexes that leave the given numbers of candidate rows
StartIndexes(v, rows) == { TimeSlotCount(v) - 1 - r : r \in rows }

\* sum over a subject list of max(1, floor(credits / 2))
RECURSIVE SumSlots(_)
SumSlots(subjs) == IF subjs = <<>> THEN 0 ELSE Max(1, Head(subjs).credits \div 2) + SumSlots(Tail(subjs))

\* variants of InsufficientCapacity9: one slot per subject, `+ 2` for `* 2`,
\* a flipped comparison, and the sum of the slots needed as the requirement
InsufficientCapacity9_BySlots(slots, subjs) == Cardinality(slots) < SumSlots(subjs)

InsufficientCapacity9_PerSubject(slots, subjs) == Cardinality(slots) < Len(subjs)

InsufficientCapacity9_PlusTwo(slots, subjs) == Cardinality(slots) < Len(subjs) + 2

InsufficientCapacity9_Flipped(slots, subjs) == Cardinality(slots) > Len(subjs) * 2

\* `availableSlots.length < this.subjects.length * 2`
InsufficientCapacity9(slots, subjs) == Cardinality(slots) < Len(subjs) * 2

\* variant of Consecutive9 without the null test
Consecutive9_NoNullTest(grid, position) == position.time + 1 < NumTimeSlots9

Consecutive9_Never(grid, position) == FALSE

\* `position.time + 1 < this.timeSlots.length && schedule[position.time + 1][position.day] === null`
Consecutive9(grid, position) ==
    /\ position.time + 1 < NumTimeSlots9
    /\ grid[position.time + 1][position.day] = Null

\* `position.time + 1 < this.timeSlots.length`
Consecutive5(grid, position) == position.time + 1 < NumTimeSlots5

\* variant of TooFewPositions5 that lets a single remaining position be used
TooFewPositions5_OnlyWhenEmpty(slots) == slots = {}

\* `availablePositions.length < 2`
TooFewPositions5(slots) == Cardinality(slots) < 2

Assign(grid, t, d, subject) == [grid EXCEPT ![t][d] = subject]

Log(w, t, d, subject) == [w EXCEPT ![t][d] = Append(@, subject.id)]

\* variant of CandidateArray whose inner loop runs through the last time index
CandidateArray_ThroughLastSlot(v, start) ==
    LET rows == Max(0, TimeSlotCount(v) - start)
    IN [k \in 1 .. (NumWeekDays * rows) |->
          [day |-> (k - 1) \div rows, time |-> start + ((k - 1) % rows)]]

\* the candidate array as the two nested loops push it: day by day, and within
\* a day from `start` to the last time index but one
CandidateArray(v, start) ==
    LET rows == Max(0, TimeSlotCount(v) - 1 - start)
    IN [k \in 1 .. (NumWeekDays * rows) |->
          [day |-> (k - 1) \div rows, time |-> start + ((k - 1) % rows)]]

\* `[array[i], array[j]] = [array[j], array[i]]`, with 1-based positions
Swap(array, m, n) == [array EXCEPT ![m] = array[n], ![n] = array[m]]

\* the values Math.floor(Math.random() * (i + 1)) can take for i = n - 1 .. 1
Draws(n) == { js \in [1 .. (n - 1) -> 0 .. (n - 1)] : \A k \in 1 .. (n - 1) : js[k] <= k }

\* the loop of shuffleArray from index k down to 1, js[k] being the j drawn at k
RECURSIVE ShuffleFrom(_, _, _)
ShuffleFrom(array, js, k) ==
    IF k > 0 THEN ShuffleFrom(Swap(array, k + 1, js[k] + 1), js, k - 1) ELSE array

\* variant of ShuffleArray whose loop starts one index lower
ShuffleArray_FromSecondLast(array, js) == ShuffleFrom(array, js, Len(array) - 2)

\* shuffleArray(array): `for (let i = array.length - 1; i > 0; i--)`
ShuffleArray(array, js) == ShuffleFrom(array, js, Len(array) - 1)

\* variant of Remaining in which shift, pop and splice remove nothing
Remaining_KeepsAll(array, slots) == array

\* the array after the removals that leave the positions `slots` in it
Remaining(array, slots) == SelectSeq(array, LAMBDA p : p \in slots)

\* the record of the positions taken, extended by the one taken for subject idx
Taken(position) ==
    IF ordered THEN Append(taken, [subject |-> idx, position |-> position]) ELSE taken

\* variant of Front9 that takes the last element, as pop() does
Front9_FromTheBack == IF ordered THEN {order[Len(order)]} ELSE availableSlots

\* `availableSlots.shift()`: the first element of the array
Front9 == IF ordered THEN {order[1]} ELSE availableSlots

\* variant of Back5 that takes any element whatever the order
Back5_AnyPosition == availableSlots

\* `availablePositions.pop()`: the last element of the array
Back5 == IF ordered THEN {order[Len(order)]} ELSE availableSlots

\* `this.shuffleArray(availableSlots)`.  When the order is not followed the
\* array stays unresolved.  The second of two compared calls draws what the
\* first drew, so that both continue from the same shuffled order.
ShuffleCandidates ==
    IF ordered
    THEN \E js \in (IF firstRun = <<>> THEN Draws(Len(order)) ELSE {random}) :
           /\ random' = js
           /\ order' = ShuffleArray(order, js)
    ELSE UNCHANGED <<order, random>>

NextSubjectOrReturn_DoesNotStore(grid) ==
    /\ idx' = idx + 1
    /\ currentScheduleData' = currentScheduleData
    /\ IF idx < Len(subjects) THEN pc' = "forEach" ELSE pc' = "returned"

\* the forEach callback of subject idx is over: the callback of the next
\* subject follows or, after the last one, the grid is stored and returned
NextSubjectOrReturn(grid) ==
    /\ idx' = idx + 1
    /\ IF idx < Len(subjects)
       THEN pc' = "forEach" /\ currentScheduleData' = currentScheduleData
       ELSE pc' = "returned" /\ currentScheduleData' = <<grid>>

\* ------------------------------------------------------------------------
\* createScheduleMatrix, src/schedule.js (v9)

\* grid initialisation, candidate loops and the upfront capacity check
BuildAndCheck9 ==
    /\ pc = "call"
    /\ variant = "v9"
    /\ schedule' = EmptyGrid(variant)
    /\ writes' = NoWrites(variant)
    /\ availableSlots' = Candidates(variant, startIndex)
    /\ order' = IF ordered THEN CandidateArray(variant, startIndex) ELSE <<>>
    /\ taken' = <<>>
    /\ shuffled' = FALSE
    /\ idx' = 0
    /\ i' = 0
    /\ IF InsufficientCapacity9(Candidates(variant, startIndex), subjects)
       THEN /\ err' = [kind |-> "global", required |-> Len(subjects) * 2,
                       available |-> Cardinality(Candidates(variant, startIndex)),
                       subject |-> 0]
            /\ pc' = "thrown"
       ELSE /\ err' = NoError
            /\ pc' = "shuffle"
    /\ UNCHANGED <<fixedVars, random, stored, savedSchedules, quiet, subjects, currentScheduleData, domVars, pending, startIndex, prior>>

Shuffle9_ShufflesSubjects ==
    /\ pc = "shuffle"
    /\ variant = "v9"
    /\ shuffled' = TRUE
    /\ idx' = 1
    /\ subjects' = [k \in 1 .. Len(subjects) |-> subjects[Len(subjects) + 1 - k]]
    /\ IF Len(subjects) = 0
       THEN pc' = "returned" /\ currentScheduleData' = <<schedule>>
       ELSE pc' = "forEach" /\ currentScheduleData' = currentScheduleData
    /\ ShuffleCandidates
    /\ UNCHANGED <<fixedVars, stored, savedSchedules, quiet, domVars, pending, startIndex,
                   schedule, availableSlots, taken, i, err, writes, prior>>

Shuffle9 ==
    /\ pc = "shuffle"
    /\ variant = "v9"
    /\ shuffled' = TRUE
    /\ idx' = 1
    /\ IF Len(subjects) = 0
       THEN pc' = "returned" /\ currentScheduleData' = <<schedule>>
       ELSE pc' = "forEach" /\ currentScheduleData' = currentScheduleData
    /\ ShuffleCandidates
    /\ UNCHANGED <<fixedVars, stored, savedSchedules, quiet, subjects, domVars, pending, startIndex,
                   schedule, availableSlots, taken, i, err, writes, prior>>

\* start of one forEach callback: empty-pool check, slotsNeeded, i = 0
SubjectStart9 ==
    /\ pc = "forEach"
    /\ variant = "v9"
    /\ idx <= Len(subjects)
    /\ IF availableSlots = {}
       THEN /\ err' = [kind |-> "subject", required |-> 0, available |-> 0, subject |-> idx]
            /\ pc' = "thrown"
            /\ UNCHANGED <<idx, currentScheduleData>>
       ELSE /\ err' = err
            /\ IF 0 < SlotsNeeded(subjects[idx])
               THEN pc' = "loop" /\ UNCHANGED <<idx, currentScheduleData>>
               ELSE NextSubjectOrReturn(schedule)
    /\ i' = 0
    /\ UNCHANGED <<fixedVars, random, stored, savedSchedules, quiet, subjects, domVars, pending, startIndex,
                   schedule, availableSlots, order, taken, shuffled, writes, prior>>

PlaceSlot9_NoShiftNoCount ==
    /\ pc = "loop"
    /\ variant = "v9"
    /\ UNCHANGED vars

\* one iteration of `for (i = 0; i < slotsNeeded && availableSlots.length > 0; i++)`
\* followed by the evaluation of the loop condition
PlaceSlot9 ==
    /\ pc = "loop"
    /\ variant = "v9"
    /\ i < SlotsNeeded(subjects[idx])
    /\ availableSlots # {}
    /\ \E position \in Front9 :
         LET rest == availableSlots \ {position}
             next == [day |-> position.day, time |-> position.time + 1]
             consecutive == Consecutive9(schedule, position)
             newSlots == IF consecutive THEN rest \ {next} ELSE rest
         IN /\ IF consecutive
               THEN /\ schedule' = Assign(Assign(schedule, position.time, position.day, subjects[idx]),
                                          position.time + 1, position.day, subjects[idx])
                    /\ writes' = Log(Log(writes, position.time, position.day, subjects[idx]),
                                     position.time + 1, position.day, subjects[idx])
               ELSE /\ schedule' = Assign(schedule, position.time, position.day, subjects[idx])
                    /\ writes' = Log(writes, position.time, position.day, subjects[idx])
            /\ availableSlots' = newSlots
            /\ order' = Remaining(order, newSlots)
            /\ taken' = Taken(position)
            /\ i' = i + 1
            /\ IF i + 1 < SlotsNeeded(subjects[idx]) /\ newSlots # {}
               THEN pc' = "loop" /\ UNCHANGED <<idx, currentScheduleData>>
               ELSE NextSubjectOrReturn(schedule')
    /\ UNCHANGED <<fixedVars, random, stored, savedSchedules, quiet, subjects, domVars, pending, startIndex,
                   shuffled, err, prior>>

\* ------------------------------------------------------------------------
\* createScheduleMatrix, src/js/schedule.js (v5)

Build5 ==
    /\ pc = "call"
    /\ variant = "v5"
    /\ schedule' = EmptyGrid(variant)
    /\ writes' = NoWrites(variant)
    /\ availableSlots' = Candidates(variant, startIndex)
    /\ order' = IF ordered THEN CandidateArray(variant, startIndex) ELSE <<>>
    /\ taken' = <<>>
    /\ shuffled' = FALSE
    /\ idx' = 0
    /\ i' = 0
    /\ err' = NoError
    /\ pc' = "shuffle"
    /\ UNCHANGED <<fixedVars, random, stored, savedSchedules, quiet, subjects, currentScheduleData, domVars, pending, startIndex, prior>>

Shuffle5 ==
    /\ pc = "shuffle"
    /\ variant = "v5"
    /\ shuffled' = TRUE
    /\ idx' = 1
    /\ IF Len(subjects) = 0
       THEN pc' = "returned" /\ currentScheduleData' = <<schedule>>
       ELSE pc' = "forEach" /\ currentScheduleData' = currentScheduleData
    /\ ShuffleCandidates
    /\ UNCHANGED <<fixedVars, stored, savedSchedules, quiet, subjects, domVars, pending, startIndex,
                   schedule, availableSlots, taken, i, err, writes, prior>>

\* one forEach callback: throw with fewer than 2 positions, else pop and place
Subject5 ==
    /\ pc = "forEach"
    /\ variant = "v5"
    /\ idx <= Len(subjects)
    /\ IF TooFewPositions5(availableSlots)
       THEN /\ err' = [kind |-> "generic", required |-> 0, available |-> 0, subject |-> 0]
            /\ pc' = "thrown"
            /\ UNCHANGED <<schedule, writes, availableSlots, order, taken, idx, currentScheduleData>>
       ELSE \E position \in Back5 :
              LET rest == availableSlots \ {position}
                  next == [day |-> position.day, time |-> position.time + 1]
              IN /\ IF Consecutive5(schedule, position)
                    THEN /\ schedule' = Assign(Assign(schedule, position.time, position.day, subjects[idx]),
                                               position.time + 1, position.day, subjects[idx])
                         /\ writes' = Log(Log(writes, position.time, position.day, subjects[idx]),
                                          position.time + 1, position.day, subjects[idx])
                         /\ availableSlots' = rest \ {next}
                    ELSE /\ schedule' = Assign(schedule, position.time, position.day, subjects[idx])
                         /\ writes' = Log(writes, position.time, position.day, subjects[idx])
                         /\ availableSlots' = rest
                 /\ order' = Remaining(order, availableSlots')
                 /\ taken' = Taken(position)
                 /\ err' = err
                 /\ NextSubjectOrReturn(schedule')
    /\ UNCHANGED <<fixedVars, random, stored, savedSchedules, quiet, subjects, domVars, pending, startIndex,
                   shuffled, i, prior>>

\* ------------------------------------------------------------------------
\* The handlers around createScheduleMatrix

\* proceedToSchedule: this.subjects = the validated list read from the form.
\* The explored sessions submit the form while no subjects are held.
Proceed(lists) ==
    /\ pc = "idle"
    /\ \E list \in lists : subjects' = list
    /\ UNCHANGED <<fixedVars, random, stored, savedSchedules, quiet, currentScheduleData, schedulePreview,
                   saveBtnHidden, loading, pending, pc, allocVars, prior>>

ProceedToSchedule ==
    /\ subjects = <<>>
    /\ Proceed(SubjectLists(variant, MaxSubjectsUI))

\* generateSchedule up to setTimeout; start = -1 is findIndex finding no slot.
\* In v9 setButtonLoading disables the button, so no click arrives while loading.
GenerateSchedule ==
    /\ pc = "idle"
    /\ variant = "v9" => ~loading
    /\ Len(pending) < MaxPending
    /\ \E start \in {-1} \cup StartIndexes(variant, RowsUI) :
         IF Len(subjects) = 0 \/ start = -1
         THEN UNCHANGED <<loading, pending, quiet>>
         ELSE /\ loading' = TRUE
              /\ pending' = Append(pending, start)
              /\ quiet' = FALSE
    /\ UNCHANGED <<fixedVars, random, stored, savedSchedules, subjects, currentScheduleData, schedulePreview, saveBtnHidden,
                   pc, allocVars, prior>>

\* the 1500 ms timer expires: the callback starts and calls createScheduleMatrix
TimerFires ==
    /\ pc = "idle"
    /\ pending # <<>>
    /\ startIndex' = Head(pending)
    /\ pending' = Tail(pending)
    /\ prior' = <<currentScheduleData, schedulePreview, saveBtnHidden>>
    /\ pc' = "call"
    /\ UNCHANGED <<fixedVars, random, stored, savedSchedules, quiet, subjects, currentScheduleData, domVars,
                   schedule, availableSlots, order, taken, shuffled, idx, i, err, writes>>

\* the callback is over: the locals of the call and the history of it are gone
CallbackEnds ==
    /\ startIndex' = 0
    /\ schedule' = EmptyGrid(variant)
    /\ availableSlots' = {}
    /\ order' = <<>>
    /\ taken' = <<>>
    /\ shuffled' = FALSE
    /\ idx' = 0
    /\ i' = 0
    /\ err' = NoError
    /\ writes' = NoWrites(variant)
    /\ prior' = <<<<>>, <<>>, TRUE>>

\* try block after a return: displaySchedule, show the save button; finally
CallbackSuccess ==
    /\ pc = "returned"
    /\ schedulePreview' = <<schedule>>
    /\ saveBtnHidden' = FALSE
    /\ loading' = FALSE
    /\ pc' = "idle"
    /\ CallbackEnds
    /\ UNCHANGED <<fixedVars, random, stored, savedSchedules, quiet, subjects, currentScheduleData, pending>>

\* variant of CallbackCatch that renders the grid built so far
CallbackCatch_ShowsPartial ==
    /\ pc = "thrown"
    /\ schedulePreview' = <<schedule>>
    /\ loading' = FALSE
    /\ pc' = "idle"
    /\ CallbackEnds
    /\ UNCHANGED <<fixedVars, random, stored, savedSchedules, quiet, subjects, currentScheduleData, saveBtnHidden,
                   pending>>

\* variant of CallbackCatch without the finally block
CallbackCatch_WithoutFinally ==
    /\ pc = "thrown"
    /\ pc' = "idle"
    /\ CallbackEnds
    /\ UNCHANGED <<fixedVars, random, stored, savedSchedules, quiet, subjects, currentScheduleData,
                   schedulePreview, saveBtnHidden, loading, pending>>

\* catch block after a throw: a toast only; finally
CallbackCatch ==
    /\ pc = "thrown"
    /\ loading' = FALSE
    /\ pc' = "idle"
    /\ CallbackEnds
    /\ UNCHANGED <<fixedVars, random, stored, savedSchedules, quiet, subjects, currentScheduleData, schedulePreview,
                   saveBtnHidden, pending>>

\* the state after `new ScheduleManager()`
Init ==
    /\ variant \in Variants
    /\ subjects = <<>>
    /\ currentScheduleData = <<>>
    /\ schedulePreview = <<>>
    /\ saveBtnHidden = TRUE
    /\ loading = FALSE
    /\ pending = <<>>
    /\ pc = "idle"
    /\ startIndex = 0
    /\ schedule = EmptyGrid(variant)
    /\ availableSlots = {}
    /\ shuffled = FALSE
    /\ idx = 0
    /\ i = 0
    /\ err = NoError
    /\ writes = NoWrites(variant)
    /\ prior = <<<<>>, <<>>, TRUE>>
    /\ savedSchedules = NoSaved
    /\ quiet = FALSE
    /\ ordered = FALSE
    /\ order = <<>>
    /\ taken = <<>>
    /\ random = <<>>
    /\ firstRun = <<>>
    /\ stored = <<>>
    /\ studentsAssigned = NoStudents
    /\ otherStudents = NoOthers
    /\ result = <<>>

Next ==
    \/ ProceedToSchedule
    \/ GenerateSchedule
    \/ TimerFires
    \/ BuildAndCheck9
    \/ Shuffle9
    \/ SubjectStart9
    \/ PlaceSlot9
    \/ Build5
    \/ Shuffle5
    \/ Subject5
    \/ CallbackSuccess
    \/ CallbackCatch

Spec == Init /\ [][Next]_vars

\* a timer that is due fires, and the callback it starts is synchronous code
\* that runs to its end
SpecFair ==
    /\ Init
    /\ [][Next]_vars
    /\ WF_vars(TimerFires)
    /\ WF_vars(BuildAndCheck9 \/ Shuffle9 \/ SubjectStart9 \/ PlaceSlot9)
    /\ WF_vars(Build5 \/ Shuffle5 \/ Subject5)
    /\ WF_vars(CallbackSuccess \/ CallbackCatch)

\* ------------------------------------------------------------------------
\* A whole administrator session: the form can be submitted again, schedules
\* are saved, edited and deleted, and the administrator can log out, all of it
\* also while a generateSchedule timer is pending.

\* the subject lists submitted in the explored sessions
SessionLists(v) ==
    { list \in SubjectLists(v, MaxSubjectsSession) :
        \A k \in 1 .. Len(list) : list[k].credits <= MaxCreditsSession }

ProceedToScheduleAnytime == Proceed(SessionLists(variant))

\* resetAdminForm: the part of a handler that clears the form and the manager
ResetAdminForm ==
    /\ subjects' = <<>>
    /\ currentScheduleData' = <<>>
    /\ schedulePreview' = <<>>
    /\ saveBtnHidden' = TRUE
    /\ quiet' = TRUE

\* UCEGScheduleApp.logout: resets the admin form of the manager, which lives on
Logout ==
    /\ pc = "idle"
    /\ ResetAdminForm
    /\ UNCHANGED <<fixedVars, random, stored, savedSchedules, loading, pending, pc, allocVars, prior>>

\* variant of SaveSchedule without the test of currentScheduleData
SaveSchedule_WithoutGuard ==
    /\ pc = "idle"
    /\ \E course \in Courses :
         savedSchedules' = [savedSchedules EXCEPT ![course] =
                              <<[data |-> currentScheduleData, subjects |-> subjects]>>]
    /\ stored' = <<savedSchedules'>>
    /\ ResetAdminForm
    /\ UNCHANGED <<fixedVars, random, loading, pending, pc, allocVars, prior>>

\* saveSchedule: store data and subjects under the course of the form, then reset
SaveSchedule ==
    /\ pc = "idle"
    /\ IF currentScheduleData = <<>>
       THEN UNCHANGED <<savedSchedules, stored, subjects, currentScheduleData, schedulePreview,
                        saveBtnHidden, quiet>>
       ELSE /\ \E course \in Courses :
                 savedSchedules' = [savedSchedules EXCEPT ![course] =
                                      <<[data |-> currentScheduleData[1], subjects |-> subjects]>>]
            /\ stored' = <<savedSchedules'>>
            /\ ResetAdminForm
    /\ UNCHANGED <<fixedVars, random, loading, pending, pc, allocVars, prior>>

GoBackToSubjects ==
    /\ pc = "idle"
    /\ saveBtnHidden' = TRUE
    /\ UNCHANGED <<fixedVars, random, stored, savedSchedules, quiet, subjects, currentScheduleData, schedulePreview,
                   loading, pending, pc, allocVars, prior>>

\* editSchedule(course): load the subjects of the saved record
EditSchedule ==
    /\ pc = "idle"
    /\ \E course \in Courses :
         IF savedSchedules[course] = <<>>
         THEN subjects' = subjects
         ELSE subjects' = savedSchedules[course][1].subjects
    /\ UNCHANGED <<fixedVars, random, stored, savedSchedules, quiet, currentScheduleData, schedulePreview,
                   saveBtnHidden, loading, pending, pc, allocVars, prior>>

\* deleteSchedule(course), the confirm dialog accepted or declined
DeleteSchedule ==
    /\ pc = "idle"
    /\ \E course \in Courses, confirmed \in BOOLEAN :
         IF confirmed
         THEN /\ savedSchedules' = [savedSchedules EXCEPT ![course] = <<>>]
              /\ stored' = <<savedSchedules'>>
         ELSE UNCHANGED <<savedSchedules, stored>>
    /\ UNCHANGED <<fixedVars, random, quiet, subjects, currentScheduleData, schedulePreview,
                   saveBtnHidden, loading, pending, pc, allocVars, prior>>

NextSession ==
    \/ ProceedToScheduleAnytime
    \/ GenerateSchedule
    \/ TimerFires
    \/ BuildAndCheck9
    \/ Shuffle9
    \/ SubjectStart9
    \/ PlaceSlot9
    \/ Build5
    \/ Shuffle5
    \/ Subject5
    \/ CallbackSuccess
    \/ CallbackCatch
    \/ Logout
    \/ SaveSchedule
    \/ GoBackToSubjects
    \/ EditSchedule
    \/ DeleteSchedule

SpecSession == Init /\ [][NextSession]_vars

\* generating, saving and deleting, the form being submitted with one subject
\* when no subjects are held
ProceedToScheduleSave ==
    /\ subjects = <<>>
    /\ Proceed({ list \in SubjectLists(variant, 1) : list[1].credits \in CreditsSave })

NextSave ==
    \/ ProceedToScheduleSave
    \/ GenerateSchedule
    \/ TimerFires
    \/ BuildAndCheck9
    \/ Shuffle9
    \/ SubjectStart9
    \/ PlaceSlot9
    \/ Build5
    \/ Shuffle5
    \/ Subject5
    \/ CallbackSuccess
    \/ CallbackCatch
    \/ SaveSchedule
    \/ DeleteSchedule

SpecSave == Init /\ [][NextSave]_vars

\* ------------------------------------------------------------------------
\* AuthManager: the assignment of students to courses

\* `assignedCourses.filter(c => c === course).length`
CourseCount(course) ==
    Cardinality({ email \in Emails : studentsAssigned[email] = course }) + otherStudents[course]

RECURSIVE SumOver(_, _)
SumOver(f, S) == IF S = {} THEN 0 ELSE LET c == CHOOSE x \in S : TRUE IN f[c] + SumOver(f, S \ {c})

\* `this.studentsAssigned.length`
TotalStudents ==
    Cardinality({ email \in Emails : studentsAssigned[email] # NoCourse })
        + SumOver(otherStudents, AvailableCourses)

\* variant of OpenCourses that keeps a course until it holds more than the limit
OpenCourses_LimitIncluded ==
    IF Enhanced
    THEN { course \in AvailableCourses : CourseCount(course) <= CourseLimit }
    ELSE { course \in AvailableCourses : CourseCount(course) = 0 }

\* the courses the filter keeps: below the limit (enhanced), assigned to nobody (src/js)
OpenCourses ==
    IF Enhanced
    THEN { course \in AvailableCourses : CourseCount(course) < CourseLimit }
    ELSE { course \in AvailableCourses : CourseCount(course) = 0 }

\* src/js/auth.js with no course left: `this.studentsAssigned = []`
StartsOver == ~Enhanced /\ OpenCourses = {}

\* the array the random index is applied to
ChoosableCourses == IF OpenCourses = {} THEN AvailableCourses ELSE OpenCourses

\* assignCourseToStudent(email) for a followed email
AssignCourseToStudent ==
    /\ \E email \in Emails :
         IF studentsAssigned[email] # NoCourse
         THEN /\ result' = <<[email |-> email, course |-> studentsAssigned[email]]>>
              /\ UNCHANGED <<studentsAssigned, otherStudents>>
         ELSE /\ TotalStudents < MaxStudents
              /\ \E course \in ChoosableCourses :
                   /\ studentsAssigned' =
                        [(IF StartsOver THEN NoStudents ELSE studentsAssigned) EXCEPT ![email] = course]
                   /\ otherStudents' = IF StartsOver THEN NoOthers ELSE otherStudents
                   /\ result' = <<[email |-> email, course |-> course]>>
    /\ UNCHANGED <<variant, ordered, firstRun, random, stored, savedSchedules, quiet, subjects,
                   currentScheduleData, domVars, pending, pc, allocVars, prior>>

\* assignCourseToStudent(email) for any other email that has no entry yet
AssignCourseToOther ==
    /\ TotalStudents < MaxStudents
    /\ \E course \in ChoosableCourses :
         /\ otherStudents' =
              [(IF StartsOver THEN NoOthers ELSE otherStudents) EXCEPT ![course] = @ + 1]
         /\ studentsAssigned' = IF StartsOver THEN NoStudents ELSE studentsAssigned
    /\ result' = <<>>
    /\ UNCHANGED <<variant, ordered, firstRun, random, stored, savedSchedules, quiet, subjects,
                   currentScheduleData, domVars, pending, pc, allocVars, prior>>

\* getStudentCourse(email): the course of the entry, or null
GetStudentCourse ==
    /\ \E email \in Emails :
         result' = <<[email |-> email, course |-> studentsAssigned[email]]>>
    /\ UNCHANGED <<variant, ordered, firstRun, random, stored, savedSchedules, quiet, subjects,
                   currentScheduleData, domVars, pending, pc, allocVars, prior,
                   studentsAssigned, otherStudents>>

ResetStudentAssignments ==
    /\ studentsAssigned' = NoStudents
    /\ otherStudents' = NoOthers
    /\ result' = <<>>
    /\ UNCHANGED <<variant, ordered, firstRun, random, stored, savedSchedules, quiet, subjects,
                   currentScheduleData, domVars, pending, pc, allocVars, prior>>

NextAuth ==
    \/ AssignCourseToStudent
    \/ AssignCourseToOther
    \/ GetStudentCourse
    \/ ResetStudentAssignments

SpecAuth == Init /\ [][NextAuth]_vars

\* ------------------------------------------------------------------------
\* createScheduleMatrix applied to drawn inputs: the manager holds the drawn
\* subjects and the call createScheduleMatrix(startIndex) is about to run.

InitCall(vs, maxLen, rows, orders) ==
    /\ variant \in vs
    /\ subjects \in SubjectLists(variant, maxLen)
    /\ startIndex \in StartIndexes(variant, rows)
    /\ currentScheduleData = <<>>
    /\ schedulePreview = <<>>
    /\ saveBtnHidden = TRUE
    /\ loading = TRUE
    /\ pending = <<>>
    /\ pc = "call"
    /\ schedule = EmptyGrid(variant)
    /\ availableSlots = {}
    /\ shuffled = FALSE
    /\ idx = 0
    /\ i = 0
    /\ err = NoError
    /\ writes = NoWrites(variant)
    /\ prior = <<<<>>, <<>>, TRUE>>
    /\ savedSchedules = NoSaved
    /\ quiet = FALSE
    /\ ordered \in orders
    /\ order = <<>>
    /\ taken = <<>>
    /\ random = <<>>
    /\ firstRun = <<>>
    /\ stored = <<>>
    /\ studentsAssigned = NoStudents
    /\ otherStudents = NoOthers
    /\ result = <<>>

InitAlloc == InitCall(Variants, MaxSubjects, RowsAlloc, {FALSE})

InitLate == InitCall(Variants, MaxSubjectsLate, RowsLate, {FALSE})

InitWide == InitCall(Variants, MaxSubjectsWide, RowsAlloc, {FALSE})

\* startIndex = 0: every candidate row of the 9-slot grid
InitFirst ==
    /\ InitCall({"v9"}, MaxSubjectsFirst, {NumTimeSlots9 - 1}, {FALSE})
    /\ \A k \in 1 .. Len(subjects) : subjects[k].credits \in CreditsFirst

NextAlloc ==
    \/ BuildAndCheck9
    \/ Shuffle9
    \/ SubjectStart9
    \/ PlaceSlot9
    \/ Build5
    \/ Shuffle5
    \/ Subject5

Next9 ==
    \/ BuildAndCheck9
    \/ Shuffle9
    \/ SubjectStart9
    \/ PlaceSlot9

SpecAlloc == InitAlloc /\ [][NextAlloc]_vars

\* the call is synchronous code: once started it keeps running
SpecAllocFair == InitAlloc /\ [][NextAlloc]_vars /\ WF_vars(NextAlloc)

SpecLate == InitLate /\ [][NextAlloc]_vars

SpecWide == InitWide /\ [][NextAlloc]_vars

SpecFirst == InitFirst /\ [][Next9]_vars

\* ------------------------------------------------------------------------
\* createScheduleMatrix with the order of the candidate array followed element
\* by element: shuffleArray draws its swaps, shift() and pop() take the ends.

InitOrder == InitCall(Variants, MaxSubjectsOrder, RowsOrder, {TRUE})

\* createScheduleMatrix(startIndex) is called once more on the same manager
\* with the same subjects; the outcome of the first call is kept for comparison
RunAgain ==
    /\ ordered
    /\ pc \in {"returned", "thrown"}
    /\ firstRun = <<>>
    /\ firstRun' = <<[pc |-> pc, schedule |-> schedule, err |-> err]>>
    /\ pc' = "call"
    /\ UNCHANGED <<variant, authVars, ordered, random, stored, savedSchedules, quiet, subjects,
                   currentScheduleData, domVars, pending, allocVars, prior>>

NextOrder ==
    \/ BuildAndCheck9
    \/ Shuffle9
    \/ SubjectStart9
    \/ PlaceSlot9
    \/ Build5
    \/ Shuffle5
    \/ Subject5
    \/ RunAgain

SpecOrder == InitOrder /\ [][NextOrder]_vars

\* the 5-slot createScheduleMatrix with enough subjects to use up five candidates
InitLenient == InitCall({"v5"}, MaxSubjectsLenient, RowsLate, {FALSE})

Next5 ==
    \/ Build5
    \/ Shuffle5
    \/ Subject5

SpecLenient == InitLenient /\ [][Next5]_vars

\* the candidate loops alone, for every start index findIndex can return
InitBuild ==
    /\ InitCall(Variants, MaxSubjectsBuild, 0 .. (NumTimeSlots9 - 1), {TRUE})
    /\ startIndex \in Times(variant)

NextBuild ==
    \/ BuildAndCheck9
    \/ Build5

SpecBuild == InitBuild /\ [][NextBuild]_vars

\* ------------------------------------------------------------------------
\* Vocabulary of the properties

Cells(v) == Times(v) \X Days

\* the cells of `grid` that hold subject number k
CellsOf(grid, k) == { c \in Cells(variant) : grid[c[1]][c[2]].id = k }

EverySubjectPlaced ==
    \A k \in 1 .. Len(subjects) :
        \E t \in Times(variant), d \in Days : schedule[t][d].id = k

\* required capacity in the sense of the specification: the sum of max(1, floor(credits / 2))
RequiredCapacity == SumSlots(subjects)

CandidateCount == NumWeekDays * Max(0, TimeSlotCount(variant) - 1 - startIndex)

NothingWritten == \A c \in Cells(variant) : writes[c[1]][c[2]] = <<>>

\* the positions in the pool, read off the array when its order is followed
PoolPositions == IF ordered THEN { order[k] : k \in 1 .. Len(order) } ELSE availableSlots

\* the pool exists: the candidate loops of the running call have run
PoolBuilt == pc \in {"shuffle", "forEach", "loop", "returned", "thrown"}

\* ------------------------------------------------------------------------
\* Properties

\* C1: in the 9-slot variant no cell is assigned twice, and every cell written
\* for a subject still holds that subject (at every step, hence in the returned grid).
C1_NoCellWrittenTwice ==
    variant = "v9" =>
        \A c \in Cells(variant) :
            /\ Len(writes[c[1]][c[2]]) <= 1
            /\ Len(writes[c[1]][c[2]]) = 1 => schedule[c[1]][c[2]].id = writes[c[1]][c[2]][1]

\* a returned 9-slot grid where subject 2 got a single cell because the cell
\* below its position already belonged to subject 1
C1_Witness ==
    /\ variant = "v9"
    /\ pc = "returned"
    /\ \E c \in Cells(variant) :
         /\ c[1] + 1 < NumTimeSlots9
         /\ schedule[c[1]][c[2]].id = 2
         /\ schedule[c[1] + 1][c[2]].id = 1

\* C2: in the 5-slot variant no cell is assigned to two different subjects
\* during one call (no placement overwrites another subject's cell).
C2_NoOverwrite5 ==
    variant = "v5" =>
        \A c \in Cells(variant) :
            \A m, n \in 1 .. Len(writes[c[1]][c[2]]) : writes[c[1]][c[2]][m] = writes[c[1]][c[2]][n]

\* C3: a returned grid holds every subject of the list in at least one cell (both variants).
C3_ReturnedGridHoldsEverySubject == pc = "returned" => EverySubjectPlaced

\* a returned 5-slot grid in which a cell of one subject was overwritten by another
C3_Witness ==
    /\ variant = "v5"
    /\ pc = "returned"
    /\ Len(subjects) = 2
    /\ \E c \in Cells(variant) : writes[c[1]][c[2]] = <<1, 2>>

\* C4: in the 9-slot variant, when the candidate positions are fewer than the
\* required capacity, the call throws a capacity error, returns no grid and
\* leaves currentScheduleData unset.
C4_ShortfallThrows ==
    (variant = "v9" /\ pc # "call" /\ CandidateCount < RequiredCapacity) =>
        /\ pc = "thrown"
        /\ err.kind \in {"global", "subject"}
        /\ currentScheduleData = <<>>

\* a throw with candidates available, but fewer than the required capacity
C4_Witness ==
    /\ variant = "v9"
    /\ pc = "thrown"
    /\ CandidateCount > 0
    /\ CandidateCount < RequiredCapacity

\* C5: in the 9-slot variant, whenever the candidate positions are at least the
\* required capacity, the call does not throw and the returned grid holds every subject.
C5_EnoughCapacitySucceeds ==
    (variant = "v9" /\ CandidateCount >= RequiredCapacity) =>
        /\ pc # "thrown"
        /\ pc = "returned" => EverySubjectPlaced

C7_EmptiedPoolThrowsForSubject ==
    [][(variant = "v9" /\ pc = "loop" /\ pc' # "loop" /\ i' < SlotsNeeded(subjects[idx]))
         => (pc' = "thrown" /\ err'.kind = "subject" /\ err'.subject = idx)]_vars

\* C8: in the 9-slot variant the global capacity error is thrown exactly when
\* the candidate count is below 2 * |subjects|, before the shuffle and before
\* any cell is assigned, and it reports 2 * |subjects| and the candidate count.
C8_GlobalCheckIsTwicePerSubject ==
    (variant = "v9" /\ pc # "call") =>
        /\ err.kind = "global" <=> CandidateCount < 2 * Len(subjects)
        /\ err.kind = "global" =>
              /\ pc = "thrown"
              /\ ~shuffled
              /\ NothingWritten
              /\ schedule = EmptyGrid(variant)
              /\ err.required = 2 * Len(subjects)
              /\ err.available = CandidateCount
              /\ Cardinality(availableSlots) = CandidateCount

\* the global error at the boundary: one candidate fewer than 2 * |subjects|
C8_Witness ==
    /\ variant = "v9"
    /\ err.kind = "global"
    /\ err.available > 0
    /\ err.required = err.available + 1

C10_FailedGenerationLeavesState ==
    [][(pc = "thrown" /\ pc' = "idle")
         => <<currentScheduleData', schedulePreview', saveBtnHidden'>> = prior]_vars

\* a throw while an earlier schedule is stored and displayed
C10_Witness ==
    /\ pc = "thrown"
    /\ currentScheduleData # <<>>
    /\ schedulePreview = currentScheduleData
    /\ ~saveBtnHidden

\* C11: every grid returned by the 9-slot variant holds each subject in at least
\* one and at most two cells (a single subject with 5 credits: exactly two).
C11_OneOrTwoCellsPerSubject ==
    (variant = "v9" /\ pc = "returned") =>
        \A k \in 1 .. Len(subjects) :
            /\ Cardinality(CellsOf(schedule, k)) >= 1
            /\ Cardinality(CellsOf(schedule, k)) <= 2

\* C12: in every grid returned by the 9-slot variant a subject occupies at most
\* 2 * max(1, floor(credits / 2)) cells.
C12_AtMostTwoCellsPerSlotNeeded ==
    (variant = "v9" /\ pc = "returned") =>
        \A k \in 1 .. Len(subjects) :
            Cardinality(CellsOf(schedule, k)) <= 2 * Max(1, subjects[k].credits \div 2)

\* a returned 9-slot grid in which a subject reaches the limit of four cells
C12_Witness ==
    /\ variant = "v9"
    /\ pc = "returned"
    /\ \E k \in 1 .. Len(subjects) :
         /\ subjects[k].credits \div 2 = 2
         /\ Cardinality(CellsOf(schedule, k)) = 4

\* C13: in both variants, during and after the call, every cell whose time
\* index is below startIndex is null and has never been assigned.
C13_NothingBeforeStart ==
    \A t \in Times(variant), d \in Days :
        t < startIndex =>
            /\ schedule[t][d] = Null
            /\ writes[t][d] = <<>>
            /\ currentScheduleData # <<>> => currentScheduleData[1][t][d] = Null

\* a grid returned for a start time after the first slot, with the row of the
\* start time in use
C13_Witness ==
    /\ pc = "returned"
    /\ startIndex > 0
    /\ \E d \in Days : schedule[startIndex][d] # Null

\* C20: each step of the 9-slot placement loop takes one position p of the
\* pool; when the cell below p exists and is null, both cells go to the current
\* subject and the lower position leaves the pool too; otherwise only p's cell
\* is assigned and only p leaves the pool.
C20_PlacementStep ==
    [][(variant = "v9" /\ pc = "loop") =>
         \E p \in availableSlots :
            LET below == [day |-> p.day, time |-> p.time + 1]
                s == subjects[idx]
            IN IF p.time + 1 < NumTimeSlots9 /\ schedule[p.time + 1][p.day] = Null
               THEN /\ schedule' = [schedule EXCEPT ![p.time][p.day] = s,
                                                    ![p.time + 1][p.day] = s]
                    /\ availableSlots' = availableSlots \ {p, below}
               ELSE /\ schedule' = [schedule EXCEPT ![p.time][p.day] = s]
                    /\ availableSlots' = availableSlots \ {p}]_vars

\* a 9-slot call that has placed a two-cell block and, above another subject's
\* cell, a single cell
C20_Witness ==
    /\ variant = "v9"
    /\ pc \in {"forEach", "loop", "returned"}
    /\ \E c \in Cells(variant) :
         /\ c[1] + 1 < NumTimeSlots9
         /\ writes[c[1]][c[2]] # <<>>
         /\ writes[c[1] + 1][c[2]] = writes[c[1]][c[2]]
    /\ \E c \in Cells(variant) :
         /\ c[1] + 1 < NumTimeSlots9
         /\ writes[c[1]][c[2]] # <<>>
         /\ writes[c[1] + 1][c[2]] # <<>>
         /\ writes[c[1] + 1][c[2]] # writes[c[1]][c[2]]

\* C17: in both variants every call ends, with a returned grid or with a
\* thrown error.
C17_CallTerminates == <>(pc \in {"returned", "thrown"})

\* a 9-slot call that returned after a second iteration of the placement loop
C17_Witness ==
    /\ variant = "v9"
    /\ pc = "returned"
    /\ i = 2

\* the positions of a handler inside createScheduleMatrix
InCall == pc \in {"call", "shuffle", "forEach", "loop"}

C15_NoSideEffect == pc = "returned" => currentScheduleData = prior[1]

\* C15: the one field of the manager a call changes is currentScheduleData,
\* in the step that returns and to the returned grid; subjects and
\* savedSchedules keep their values.
C15_OnlyStoresTheGrid ==
    [][InCall =>
         /\ subjects' = subjects
         /\ savedSchedules' = savedSchedules
         /\ IF pc' = "returned"
            THEN currentScheduleData' = <<schedule'>>
            ELSE currentScheduleData' = currentScheduleData]_vars

\* a call that returned and replaced an earlier stored schedule by another grid
C15_Witness ==
    /\ pc = "returned"
    /\ prior[1] # <<>>
    /\ currentScheduleData # prior[1]

\* C16: every saved record's grid references only subjects of the record's
\* own subjects list.
C16_SavedRecordConsistent ==
    \A course \in Courses :
        savedSchedules[course] # <<>> =>
            LET record == savedSchedules[course][1]
            IN \A t \in Times(variant), d \in Days :
                  record.data[t][d] # Null =>
                      \E k \in 1 .. Len(record.subjects) : record.subjects[k] = record.data[t][d]

\* C18: this.subjects is non-empty when the delayed callback calls
\* createScheduleMatrix.
C18_CallbackSeesSubjects == pc = "call" => Len(subjects) > 0

\* C19: from a resetAdminForm until the next generation request, no schedule
\* is stored and the save button is hidden.
C19_QuietAfterReset == quiet => (currentScheduleData = <<>> /\ saveBtnHidden)

C22_CandidatesAreTheRowsFromStart ==
    (PoolBuilt /\ ~shuffled) =>
        LET expected == { q \in [day : -1 .. NumWeekDays, time : -1 .. TimeSlotCount(variant)] :
                            /\ 0 <= q.day /\ q.day < NumWeekDays
                            /\ startIndex <= q.time /\ q.time < TimeSlotCount(variant) - 1 }
        IN /\ PoolPositions = expected
           /\ availableSlots = expected
           /\ Len(order) = NumWeekDays * (TimeSlotCount(variant) - 1 - startIndex)
           /\ \A m, n \in 1 .. Len(order) : order[m] = order[n] => m = n
           /\ \A p \in PoolPositions : p.time # TimeSlotCount(variant) - 1

\* the 5-slot loops have run for startIndex 1: three rows of five candidates
C22_Witness ==
    /\ ordered
    /\ variant = "v5"
    /\ pc = "shuffle"
    /\ startIndex = 1
    /\ Len(order) = 15

\* the candidate array as shuffleArray left it in the running call
ShuffledList == ShuffleArray(CandidateArray(variant, startIndex), random)

\* where a position stands in the shuffled list
PlaceIn(list, p) == CHOOSE k \in 1 .. Len(list) : list[k] = p

\* C23: in src/schedule.js the positions are taken in the order of the shuffled
\* list (the positions taken form a subsequence of it), each one is the
\* frontmost position still in the pool when it is taken, and every position
\* of an earlier subject is taken before any position of a later subject.
C23_FrontmostInInputOrder ==
    (variant = "v9" /\ ordered /\ PoolBuilt /\ shuffled) =>
        /\ \A n \in 1 .. Len(taken) : \E k \in 1 .. Len(ShuffledList) : ShuffledList[k] = taken[n].position
        /\ \A m, n \in 1 .. Len(taken) :
              m < n => /\ PlaceIn(ShuffledList, taken[m].position) < PlaceIn(ShuffledList, taken[n].position)
                       /\ taken[m].subject <= taken[n].subject
        /\ \A n \in 1 .. Len(taken) :
              \A k \in 1 .. (PlaceIn(ShuffledList, taken[n].position) - 1) :
                  ShuffledList[k] \notin PoolPositions
        /\ \A n \in 1 .. Len(taken) :
              schedule[taken[n].position.time][taken[n].position.day] = subjects[taken[n].subject]

\* a returned 9-slot grid for two subjects of two positions each, taken from a
\* list that the shuffle did reorder
C23_Witness ==
    /\ variant = "v9"
    /\ ordered
    /\ pc = "returned"
    /\ Len(taken) = 4
    /\ taken[2].subject = 1
    /\ taken[3].subject = 2
    /\ taken[1].position # CandidateArray(variant, startIndex)[1]

Rearrangements(list) ==
    { [k \in 1 .. Len(list) |-> list[f[k]]] : f \in Permutations(1 .. Len(list)) }

\* C25: shuffleArray leaves in the candidate array a permutation of what it
\* held (same length, no position lost or duplicated), and every permutation
\* of the array is a possible outcome (both variants).
C25_ShuffleIsAnyPermutation ==
    /\ (ordered /\ pc = "shuffle") =>
          { ShuffleArray(order, js) : js \in Draws(Len(order)) } = Rearrangements(order)
    /\ (ordered /\ PoolBuilt /\ shuffled /\ taken = <<>>) =>
          /\ Len(order) = Len(CandidateArray(variant, startIndex))
          /\ \A k \in 1 .. Len(order) :
                Cardinality({ n \in 1 .. Len(order) : order[n] = CandidateArray(variant, startIndex)[k] }) = 1

\* shuffleArray has just run on five candidates and moved the first of them
\* to the end of the array
C25_Witness ==
    /\ ordered
    /\ pc = "forEach"
    /\ idx = 1
    /\ taken = <<>>
    /\ Len(order) = NumWeekDays
    /\ order[NumWeekDays] = CandidateArray(variant, startIndex)[1]

\* C26: the 5-slot createScheduleMatrix has no upfront capacity check: the
\* candidate loops and the shuffle never throw, a subject's turn throws exactly
\* when it starts with fewer than 2 positions in the pool, and a throw leaves
\* currentScheduleData as it was.
C26_ThrowsAtFirstShortSubject ==
    [][variant = "v5" =>
         /\ pc \in {"call", "shuffle"} => pc' # "thrown"
         /\ pc = "forEach" => (pc' = "thrown" <=> Cardinality(availableSlots) < 2)
         /\ pc' = "thrown" => currentScheduleData' = currentScheduleData]_vars

\* the fifth subject found one position left after four subjects were placed
C26_Witness ==
    /\ variant = "v5"
    /\ pc = "thrown"
    /\ idx = 5
    /\ Cardinality(availableSlots) = 1
    /\ \A k \in 1 .. 4 : \E t \in Times(variant), d \in Days : schedule[t][d].id = k
    /\ currentScheduleData = <<>>

\* C27: saveSchedule called while currentScheduleData is null changes nothing:
\* savedSchedules, the stored 'savedSchedules' entry, subjects, the generated
\* data and the form are as before (both variants).
C27_SaveWithoutDataChangesNothing ==
    [][(currentScheduleData = <<>> /\ SaveSchedule) =>
         UNCHANGED <<savedSchedules, stored, subjects, currentScheduleData,
                     schedulePreview, saveBtnHidden, quiet>>]_vars

\* nothing is generated, subjects are entered, and a schedule saved earlier is
\* in memory and in the store: saveSchedule would have something to overwrite
C27_Witness ==
    /\ pc = "idle"
    /\ currentScheduleData = <<>>
    /\ subjects # <<>>
    /\ \E course \in Courses : savedSchedules[course] # <<>>
    /\ stored = <<savedSchedules>>

\* C28: a generateSchedule request that passes its guards ends with the loading
\* state of the generate button cleared, whether createScheduleMatrix returns
\* or throws in the delayed callback; the loading state is set only by a request
\* made with subjects and a recognised start time.
C28_LoadingIsCleared ==
    /\ loading ~> ~loading
    /\ [][(pc \in {"returned", "thrown"} /\ pc' = "idle") => ~loading']_vars
    /\ [][(~loading /\ loading') =>
             /\ subjects # <<>>
             /\ Len(pending') = Len(pending) + 1
             /\ pending'[Len(pending')] >= 0]_vars

\* the callback of a request is in its catch block, createScheduleMatrix having
\* thrown, and the button is still loading
C28_Witness ==
    /\ pc = "thrown"
    /\ loading
    /\ pending = <<>>

\* a step that leaves every existing entry of a followed email as it is and
\* returns, for such an email, the course of its entry
EntriesKept ==
    \A email \in Emails :
        studentsAssigned[email] # NoCourse =>
            /\ studentsAssigned'[email] = studentsAssigned[email]
            /\ (result' # <<>> /\ result'[1].email = email) =>
                   result'[1].course = studentsAssigned[email]

\* C29: once an email has a course, every later assignCourseToStudent or
\* getStudentCourse call for it returns that course, whatever other students
\* are assigned in between, unless resetStudentAssignments is called (both
\* AuthManager variants).
C29_AssignmentIsStable == [][ResetStudentAssignments \/ EntriesKept]_vars

====
